---- MODULE Spec2Model ----
(***************************************************************************)
(* crabcrawl (src/main.rs): a single-domain crawler driven through a       *)
(* WebDriver client, with a terminal view of the results.                  *)
(*                                                                         *)
(* The model has three layers, all translated from src/main.rs:            *)
(*   - text helpers (to_lowercase, contains, lines) over strings that are  *)
(*     sequences of one-character strings;                                 *)
(*   - AppState and its methods, as operators from an AppState record to   *)
(*     the AppState record after the call;                                 *)
(*   - the processes: main / prompt_for_url / run_app (the render loop)    *)
(*     and one crawler_task per session, with its url_queue, visited set   *)
(*     and mpsc channel.                                                   *)
(***************************************************************************)
EXTENDS Integers, Sequences, FiniteSets, TLC

\* ------------------------------------------------------------------ bounds

\* Longest search_input the model types (search_input is an unbounded String).
MaxInput == 2
\* Largest content_scroll the model scrolls down to (content_scroll is a u16).
MaxScroll == 4

\* ------------------------------------------------------- program constants

\* content_scroll is a u16: casts to it keep the value modulo 2^16.
U16Bits == 16
U16Modulus == 2 ^ U16Bits
U16Max == U16Modulus - 1
SCROLL_LINES == 3

\* ----------------------------------------------------------------- strings

\* A string is a sequence of characters; a character is a one-letter string.
NL == "\n"
Empty == << >>

\* Option<T>: None is the empty sequence, Some(x) the one-element sequence.
None == << >>
Some(x) == << x >>
IsSome(o) == Len(o) = 1
Unwrap(o) == o[1]
UnwrapOr(o, d) == IF IsSome(o) THEN o[1] ELSE d

LowerChar(c) ==
    CASE c = "A" -> "a"
      [] c = "B" -> "b"
      [] c = "Q" -> "q"
      [] OTHER -> c

\* str::to_lowercase (the result is kept a tuple, which TLC indexes directly)
ToLowercase(s) == [i \in 1..Len(s) |-> LowerChar(s[i])] \o << >>

\* str::contains(&str): some window of the haystack equals the needle (the
\* empty needle is found in every haystack).
Contains(hay, needle) ==
    \E i \in 0..(Len(hay) - Len(needle)) :
        \A k \in 1..Len(needle) : hay[i + k] = needle[k]

\* str::lines: the text cut at every "\n"; a final "\n" ends the last line and
\* starts no further one, and the empty text has no line.  A line is named by
\* the position of its first character (one past the end for an empty last
\* line cannot occur).
LineStarts(s) ==
    IF Len(s) = 0 THEN {}
    ELSE {1} \cup {j + 1 : j \in {i \in 1..(Len(s) - 1) : s[i] = NL}}

\* The position of the "\n" ending the line scanned from position e on, or one
\* past the end of the text.
RECURSIVE LineEnd(_, _)
LineEnd(s, e) ==
    IF e > Len(s) \/ s[e] = NL THEN e ELSE LineEnd(s, e + 1)

LineAt(s, st) == SubSeq(s, st, LineEnd(s, st) - 1)

\* The 0-based number of the line that starts at st.
LineNumber(s, st) == Cardinality({t \in LineStarts(s) : t < st})

\* content.lines().position(|line| line.to_lowercase().contains(&query_lower))
LinesPosition(content, query_lower) ==
    LET hits == {st \in LineStarts(content) :
                    Contains(ToLowercase(LineAt(content, st)), query_lower)}
    IN  IF hits = {} THEN None
        ELSE Some(LineNumber(content, CHOOSE st \in hits : \A o \in hits : st <= o))

\* `x as u16`
AsU16(x) == x % U16Modulus

SaturatingAdd(a, b) == IF a + b > U16Max THEN U16Max ELSE a + b
SaturatingSub(a, b) == IF a - b < 0 THEN 0 ELSE a - b

\* ---------------------------------------------------------------- AppState

\* AppState::new
AppStateNew ==
    [ visited_urls         |-> << >>,
      body_texts           |-> << >>,
      selected             |-> None,
      search_input         |-> Empty,
      active_search_query  |-> Empty,
      is_searching         |-> FALSE,
      filtered_url_indices |-> << >>,
      content_scroll       |-> 0 ]

\* Indices are the code's 0-based usize values; TLA+ sequences start at 1.
VecGet(v, i) == IF i >= 0 /\ i < Len(v) THEN Some(v[i + 1]) ELSE None

\* iter().position(|&idx| idx == x)
VecPosition(v, x) ==
    LET at == {i \in 1..Len(v) : v[i] = x}
    IN  IF at = {} THEN None
        ELSE Some((CHOOSE i \in at : \A o \in at : i <= o) - 1)

get_selected_original_index(s) ==
    IF IsSome(s.selected)
    THEN VecGet(s.filtered_url_indices, Unwrap(s.selected))
    ELSE None

get_selected_content(s) ==
    LET idx == get_selected_original_index(s)
    IN  IF ~IsSome(idx) THEN None
        ELSE LET url == VecGet(s.visited_urls, Unwrap(idx))
             IN  IF IsSome(url) /\ Unwrap(url) \in DOMAIN s.body_texts
                 THEN Some(s.body_texts[Unwrap(url)])
                 ELSE None

get_selected_url(s) ==
    LET idx == get_selected_original_index(s)
    IN  IF IsSome(idx) THEN Some(s.visited_urls[Unwrap(idx) + 1]) ELSE None

select_first_or_last(s) ==
    IF s.filtered_url_indices # << >>
    THEN [s EXCEPT !.selected = Some(0)]
    ELSE [s EXCEPT !.selected = None]

\* The filter closure of update_filtered_list: does entry idx pass the query?
FilterMismatch(s, query, idx) ==
    LET url == s.visited_urls[idx + 1]
    IN  url \in DOMAIN s.body_texts /\ Contains(s.body_texts[url], query)
FilterMatches(s, query, idx) ==
    IF query = Empty THEN TRUE
    ELSE LET url == s.visited_urls[idx + 1]
         IN  url \in DOMAIN s.body_texts
             /\ Contains(ToLowercase(s.body_texts[url]), query)

\* The second half of update_filtered_list: put the selection back on the
\* entry that was selected, or on the first entry.
KeepFirstPosition(s, previous) == select_first_or_last(s)
Reselect(s, previous) ==
    IF IsSome(previous)
    THEN LET pos == VecPosition(s.filtered_url_indices, Unwrap(previous))
         IN  IF IsSome(pos)
             THEN [s EXCEPT !.selected = pos]
             ELSE select_first_or_last(s)
    ELSE select_first_or_last(s)

\* The indices 0..n-1 of visited_urls that pass the filter, in order
\* (enumerate().filter(..).map(|(idx, _)| idx).collect()).
RECURSIVE FilterIndices(_, _, _)
FilterIndices(s, query, n) ==
    IF n = 0 THEN << >>
    ELSE LET rest == FilterIndices(s, query, n - 1)
         IN  IF FilterMatches(s, query, n - 1) THEN Append(rest, n - 1) ELSE rest

update_filtered_list(s) ==
    LET query == ToLowercase(s.active_search_query)
        previous == get_selected_original_index(s)
        t == [s EXCEPT !.filtered_url_indices =
                          FilterIndices(s, query, Len(s.visited_urls))]
    IN  Reselect(t, previous)

find_first_match_line(s) ==
    IF s.active_search_query = Empty THEN None
    ELSE LET query_lower == ToLowercase(s.active_search_query)
             content == get_selected_content(s)
         IN  IF ~IsSome(content) THEN None
             ELSE LET pos == LinesPosition(Unwrap(content), query_lower)
                  IN  IF IsSome(pos) THEN Some(AsU16(Unwrap(pos))) ELSE None

reset_or_find_scroll(s) ==
    IF s.active_search_query # Empty
    THEN [s EXCEPT !.content_scroll = UnwrapOr(find_first_match_line(s), 0)]
    ELSE [s EXCEPT !.content_scroll = 0]

\* An add_crawl_result that aims the scroll again after every new result.
AddCrawlResultRetargets(s, url, body) ==
    IF url \notin DOMAIN s.body_texts
    THEN LET is_first_item == s.visited_urls = << >>
             pushed == [s EXCEPT !.visited_urls = Append(@, url),
                                 !.body_texts = [u \in DOMAIN @ \cup {url} |->
                                                    IF u = url THEN body ELSE @[u]]]
             t == update_filtered_list(pushed)
         IN  IF t.filtered_url_indices # << >>
             THEN reset_or_find_scroll(
                      IF is_first_item THEN [t EXCEPT !.selected = Some(0)] ELSE t)
             ELSE t
    ELSE s
\* add_crawl_result without the contains_key test of line 65.
AddCrawlResultAlways(s, url, body) ==
    LET is_first_item == s.visited_urls = << >>
        pushed == [s EXCEPT !.visited_urls = Append(@, url),
                            !.body_texts = [u \in DOMAIN @ \cup {url} |->
                                               IF u = url THEN body ELSE @[u]]]
        t == update_filtered_list(pushed)
    IN  IF is_first_item /\ t.filtered_url_indices # << >>
        THEN reset_or_find_scroll([t EXCEPT !.selected = Some(0)])
        ELSE t
add_crawl_result(s, url, body) ==
    IF url \notin DOMAIN s.body_texts
    THEN LET is_first_item == s.visited_urls = << >>
             pushed == [s EXCEPT !.visited_urls = Append(@, url),
                                 !.body_texts = [u \in DOMAIN @ \cup {url} |->
                                                    IF u = url THEN body ELSE @[u]]]
             t == update_filtered_list(pushed)
         IN  IF is_first_item /\ t.filtered_url_indices # << >>
             THEN reset_or_find_scroll([t EXCEPT !.selected = Some(0)])
             ELSE t
    ELSE s

SelectNextNoWrap(s) ==
    LET len == Len(s.filtered_url_indices)
    IN  IF len = 0 THEN s
        ELSE LET i == IF IsSome(s.selected)
                      THEN Unwrap(s.selected) + 1
                      ELSE 0
             IN  reset_or_find_scroll([s EXCEPT !.selected = Some(i)])
select_next(s) ==
    LET len == Len(s.filtered_url_indices)
    IN  IF len = 0 THEN s
        ELSE LET i == IF IsSome(s.selected)
                      THEN (Unwrap(s.selected) + 1) % len
                      ELSE 0
             IN  reset_or_find_scroll([s EXCEPT !.selected = Some(i)])

\* A select_previous that stops at the first entry instead of wrapping.
SelectPreviousNoWrap(s) ==
    LET len == Len(s.filtered_url_indices)
    IN  IF len = 0 THEN s
        ELSE LET i == IF IsSome(s.selected)
                      THEN (IF Unwrap(s.selected) = 0
                            THEN 0
                            ELSE Unwrap(s.selected) - 1)
                      ELSE 0
             IN  reset_or_find_scroll([s EXCEPT !.selected = Some(i)])
select_previous(s) ==
    LET len == Len(s.filtered_url_indices)
    IN  IF len = 0 THEN s
        ELSE LET i == IF IsSome(s.selected)
                      THEN (IF Unwrap(s.selected) = 0
                            THEN len - 1
                            ELSE Unwrap(s.selected) - 1)
                      ELSE 0
             IN  reset_or_find_scroll([s EXCEPT !.selected = Some(i)])

start_search(s) ==
    [s EXCEPT !.is_searching = TRUE, !.search_input = s.active_search_query]

finalize_search(s) ==
    reset_or_find_scroll(update_filtered_list(
        [s EXCEPT !.is_searching = FALSE, !.active_search_query = s.search_input]))

\* A cancel_search that clears the applied query as clear_search does.
CancelAndClear(s) ==
    [update_filtered_list([s EXCEPT !.is_searching = FALSE,
                                    !.search_input = Empty,
                                    !.active_search_query = Empty])
        EXCEPT !.content_scroll = 0]
cancel_search(s) ==
    [s EXCEPT !.is_searching = FALSE, !.search_input = Empty]

\* A clear_search that puts the selection on the first entry of the view.
ClearSearchSelectFirst(s) ==
    [select_first_or_last(
        update_filtered_list([s EXCEPT !.is_searching = FALSE,
                                       !.search_input = Empty,
                                       !.active_search_query = Empty]))
        EXCEPT !.content_scroll = 0]
clear_search(s) ==
    [update_filtered_list([s EXCEPT !.is_searching = FALSE,
                                    !.search_input = Empty,
                                    !.active_search_query = Empty])
        EXCEPT !.content_scroll = 0]

scroll_content_down(s, lines) ==
    [s EXCEPT !.content_scroll = SaturatingAdd(@, lines)]

scroll_content_up(s, lines) ==
    [s EXCEPT !.content_scroll = SaturatingSub(@, lines)]

\* ---------------------------------------------------------- input dispatch

\* A KeyEvent: its code, the character of a Char code, and whether the
\* CONTROL modifier is held.
Key(code) == [code |-> code, ch |-> "", ctrl |-> FALSE]
Char(c) == [code |-> "Char", ch |-> c, ctrl |-> FALSE]
Ctrl(c) == [code |-> "Char", ch |-> c, ctrl |-> TRUE]
IsChar(key, c) == key.code = "Char" /\ key.ch = c

\* handle_key_input: the AppState after the key and the AppControl returned.
Continue(s) == [state |-> s, control |-> "Continue"]

handle_key_input(key, s) ==
    IF s.is_searching
    THEN CASE key.code = "Enter" -> Continue(finalize_search(s))
           [] key.code = "Char" ->
                Continue([s EXCEPT !.search_input = Append(@, key.ch)])
           [] key.code = "Backspace" ->
                Continue([s EXCEPT !.search_input =
                            IF @ = Empty THEN @ ELSE SubSeq(@, 1, Len(@) - 1)])
           [] key.code = "Esc" -> Continue(cancel_search(s))
           [] OTHER -> Continue(s)
    ELSE CASE key.code = "Down" \/ IsChar(key, "j") -> Continue(select_next(s))
           [] key.code = "Up" \/ IsChar(key, "k") -> Continue(select_previous(s))
           [] key.code = "PageDown" -> Continue(scroll_content_down(s, SCROLL_LINES))
           [] key.code = "PageUp" -> Continue(scroll_content_up(s, SCROLL_LINES))
           [] IsChar(key, "d") /\ key.ctrl ->
                Continue(scroll_content_down(s, SCROLL_LINES * 2))
           [] IsChar(key, "u") /\ key.ctrl ->
                Continue(scroll_content_up(s, SCROLL_LINES * 2))
           [] IsChar(key, "/") -> Continue(start_search(s))
           [] key.code = "Esc" ->
                Continue(IF s.active_search_query # Empty THEN clear_search(s) ELSE s)
           [] IsChar(key, "q") /\ key.ctrl -> [state |-> s, control |-> "ExitApp"]
           [] IsChar(key, "c") /\ key.ctrl ->
                [state |-> s, control |-> "ExitCrawlerView"]
           [] OTHER -> Continue(s)

\* handle_mouse_input: hit says whether the event's cell intersects
\* content_area, the rectangle the last frame drew the content panel in.
handle_mouse_input(kind, hit, s) ==
    IF hit
    THEN CASE kind = "ScrollDown" -> scroll_content_down(s, SCROLL_LINES)
           [] kind = "ScrollUp" -> scroll_content_up(s, SCROLL_LINES)
           [] OTHER -> s
    ELSE s

\* -------------------------------------------------------------------- URLs

\* A parsed Url: scheme, host and the segments of its path ("/d/p" is
\* <<"d", "p">>, "/" is << >>).  Url::to_string is one-to-one on parsed Urls,
\* so the strings kept in url_queue and visited are modelled by the Urls.
MkUrl(scheme, host, path) == [scheme |-> scheme, host |-> host, path |-> path]
NoUrl == MkUrl("", "", << >>)

\* Url::domain: None when the host is an IP address.
IpHosts == {"127.0.0.1"}
UrlDomain(u) == IF u.host \in IpHosts THEN None ELSE Some(u.host)

\* The value of an anchor's href attribute: an absolute URL, an absolute
\* path ("/about"), a relative reference ("about"), a text Url::join rejects,
\* or no attribute at all.
HrefAbs(u) == [kind |-> "abs", url |-> u, path |-> << >>]
HrefPath(p) == [kind |-> "path", url |-> NoUrl, path |-> p]
HrefRel(seg) == [kind |-> "rel", url |-> NoUrl, path |-> << seg >>]
HrefBad == [kind |-> "bad", url |-> NoUrl, path |-> << >>]
HrefNone == [kind |-> "none", url |-> NoUrl, path |-> << >>]

DirOf(path) == IF path = << >> THEN << >> ELSE SubSeq(path, 1, Len(path) - 1)

\* Url::join(base, href)
UrlJoin(base, href) ==
    CASE href.kind = "abs" -> Some(href.url)
      [] href.kind = "path" -> Some([base EXCEPT !.path = href.path])
      [] href.kind = "rel" -> Some([base EXCEPT !.path = DirOf(base.path) \o href.path])
      [] OTHER -> None

\* The site the driver browses: the anchors of each page, in document order.
RootX == MkUrl("http", "x", << >>)
PageA == MkUrl("http", "x", << "a" >>)
PageDP == MkUrl("http", "x", << "d", "p" >>)
PageQ == MkUrl("http", "x", << "q" >>)
PageDQ == MkUrl("http", "x", << "d", "q" >>)
PageLeaf == MkUrl("http", "x", << "leaf" >>)
OtherZ == MkUrl("http", "y", << "z" >>)
\* A root whose host is an IP address: Url::domain gives None for it.
IpRoot == MkUrl("http", "127.0.0.1", << >>)
\* A URL that Url::parse accepts and whose scheme is neither http nor https.
FtpLeaf == MkUrl("ftp", "x", << "leaf" >>)

SiteLinks(u) ==
    CASE u = RootX -> << HrefRel("a"), HrefAbs(OtherZ), HrefPath(<< "d", "p" >>) >>
      [] u = PageA -> << HrefPath(<< >>), HrefNone, HrefPath(<< "d", "p" >>) >>
      [] u = PageDP -> << HrefRel("q"), HrefBad, HrefPath(<< >>) >>
      [] u = IpRoot -> << HrefPath(<< "a" >>), HrefAbs(RootX) >>
      [] u = PageLeaf -> << HrefPath(<< "leaf" >>) >>
      [] OTHER -> << >>

\* The two fixed texts the worker reports when it cannot read a page's body
\* ("<Body text extraction failed>", "<Body element not found>"), shortened.
BodyExtractionFailed == << "<", "f", ">" >>
BodyNotFound == << "<", "n", ">" >>

\* What has been typed at the prompt: nothing, the text of a URL, or a text
\* Url::parse rejects.  (The empty text is rejected too.)
InputEmpty == [kind |-> "empty", url |-> NoUrl]
InputUrl(u) == [kind |-> "url", url |-> u]
InputGarbage == [kind |-> "garbage", url |-> NoUrl]

\* Url::parse(&input_url)
UrlParse(inp) == IF inp.kind = "url" THEN Some(inp.url) ELSE None

\* ------------------------------------------------------------------- state

VARIABLES
    app,          \* where main is: "prompt", "session" (in run_app), "exited"
                  \* (main returned Ok) or "failed" (main returned an Err)
    input_url,    \* prompt_for_url's input buffer
    session,      \* the number of run_app calls so far; the running one's id
    app_state,    \* run_app's AppState
    task,         \* per session: the spawned crawler_task
    url_queue,    \* per session: the VecDeque behind the url_queue mutex
    visited,      \* per session: the HashSet behind the visited mutex
    chan,         \* per session: the mpsc channel (buffer, receiver alive)
    dequeued,     \* history, per session: the URLs popped from url_queue
    emitted,      \* history, per session: the messages tx.send accepted
    nav_ok,       \* history, per session: the URLs client.goto succeeded on
    skipped       \* history, per session: was the `continue` of line 265 taken

vars == << app, input_url, session, app_state, task, url_queue, visited, chan,
           dequeued, emitted, nav_ok, skipped >>

ui_vars == << app, input_url, session, app_state >>
crawl_vars == << task, url_queue, visited, chan, dequeued, emitted, nav_ok, skipped >>

\* Most run_app calls of one run of the program.
MaxSessions == 2
Sessions == 1..MaxSessions

\* Capacity of the result channel (CRAWLER_CHANNEL_BUFFER is 100; the model's
\* sites have a handful of pages, so the capacity is scaled to be reachable).
ChannelCapacity == 2

NoTask == [st |-> "none", pc |-> "none", base_url |-> NoUrl, url |-> NoUrl,
           body_text |-> Empty, links |-> << >>]
NoChan == [buf |-> << >>, rx_open |-> FALSE]

Init ==
    /\ app = "prompt"
    /\ input_url = InputEmpty
    /\ session = 0
    /\ app_state = AppStateNew
    /\ task = [s \in Sessions |-> NoTask]
    /\ url_queue = [s \in Sessions |-> << >>]
    /\ visited = [s \in Sessions |-> {}]
    /\ chan = [s \in Sessions |-> NoChan]
    /\ dequeued = [s \in Sessions |-> << >>]
    /\ emitted = [s \in Sessions |-> << >>]
    /\ nav_ok = [s \in Sessions |-> {}]
    /\ skipped = [s \in Sessions |-> FALSE]

\* ------------------------------------------------------------ crawler_task

\* The awaits at which the task is suspended on the driver, the timer or the
\* runtime; the code after `dequeue` and `send` runs on in the same poll.
SuspendPcs == {"connect", "goto", "extract", "links", "attr", "sleep", "close", "done"}

\* JoinHandle::abort only marks the task: a task that is being polled runs on
\* to its next suspension and is dropped there.
AfterStep(t) ==
    IF t.st = "aborting" /\ t.pc \in SuspendPcs THEN [t EXCEPT !.st = "cancelled"] ELSE t

Runs(s) == app \notin {"exited", "failed"} /\ task[s].st \in {"running", "aborting"}

\* Client::new(WEBDRIVER_URL).await
Connect(s, ok) ==
    /\ Runs(s) /\ task[s].pc = "connect"
    /\ task' = [task EXCEPT ![s] =
                  IF ok THEN AfterStep([@ EXCEPT !.pc = "dequeue"])
                  ELSE [@ EXCEPT !.pc = "done", !.st = "finished"]]
    /\ UNCHANGED << ui_vars, url_queue, visited, chan, dequeued, emitted, nav_ok, skipped >>

\* while let Some(url) = pop_front() { if visited.contains(&url) { continue; } ..
Dequeue(s) ==
    /\ Runs(s) /\ task[s].pc = "dequeue"
    /\ IF url_queue[s] = << >>
       THEN /\ task' = [task EXCEPT ![s] = AfterStep([@ EXCEPT !.pc = "close"])]
            /\ UNCHANGED << url_queue, dequeued, skipped >>
       ELSE LET url == Head(url_queue[s])
            IN  /\ url_queue' = [url_queue EXCEPT ![s] = Tail(@)]
                /\ dequeued' = [dequeued EXCEPT ![s] = Append(@, url)]
                /\ IF url \in visited[s]
                   THEN /\ skipped' = [skipped EXCEPT ![s] = TRUE]
                        /\ task' = [task EXCEPT ![s] = AfterStep([@ EXCEPT !.pc = "dequeue"])]
                   ELSE /\ task' = [task EXCEPT ![s] =
                                      AfterStep([@ EXCEPT !.pc = "goto", !.url = url])]
                        /\ UNCHANGED skipped
    /\ UNCHANGED << ui_vars, visited, chan, emitted, nav_ok >>

\* visited.insert(url) (lines 270 and 274)
ForgetVisited(set, url) == set
MarkVisited(set, url) == set \cup {url}

\* client.goto(&url).await, and the visited.insert on either outcome

\* A goto whose failure leaves the while loop instead of continuing it.
GotoFatal(s, ok) ==
    /\ Runs(s) /\ task[s].pc = "goto"
    /\ visited' = [visited EXCEPT ![s] = MarkVisited(@, task[s].url)]
    /\ IF ok
       THEN /\ nav_ok' = [nav_ok EXCEPT ![s] = @ \cup {task[s].url}]
            /\ task' = [task EXCEPT ![s] = AfterStep([@ EXCEPT !.pc = "extract"])]
       ELSE /\ task' = [task EXCEPT ![s] = AfterStep([@ EXCEPT !.pc = "close"])]
            /\ UNCHANGED nav_ok
    /\ UNCHANGED << ui_vars, url_queue, chan, dequeued, emitted, skipped >>
Goto(s, ok) ==
    /\ Runs(s) /\ task[s].pc = "goto"
    /\ visited' = [visited EXCEPT ![s] = MarkVisited(@, task[s].url)]
    /\ IF ok
       THEN /\ nav_ok' = [nav_ok EXCEPT ![s] = @ \cup {task[s].url}]
            /\ task' = [task EXCEPT ![s] = AfterStep([@ EXCEPT !.pc = "extract"])]
       ELSE /\ task' = [task EXCEPT ![s] = AfterStep([@ EXCEPT !.pc = "dequeue"])]
            /\ UNCHANGED nav_ok
    /\ UNCHANGED << ui_vars, url_queue, chan, dequeued, emitted, skipped >>

\* client.find(Css("body")) and element.text(): the text, or one of the two
\* fixed texts.
Extract(s, body) ==
    /\ Runs(s) /\ task[s].pc = "extract"
    /\ task' = [task EXCEPT ![s] = AfterStep([@ EXCEPT !.pc = "send", !.body_text = body])]
    /\ UNCHANGED << ui_vars, url_queue, visited, chan, dequeued, emitted, nav_ok, skipped >>

\* tx.send((url, body_text)).await: an error once the receiver is dropped,
\* suspended while the buffer is full.
\* tx.send on a channel that hands out a permit whatever the buffer holds.
SendUnbounded(s) ==
    /\ Runs(s) /\ task[s].pc = "send"
    /\ IF ~chan[s].rx_open
       THEN /\ task' = [task EXCEPT ![s] = AfterStep([@ EXCEPT !.pc = "close"])]
            /\ UNCHANGED << chan, emitted >>
       ELSE /\ chan' = [chan EXCEPT ![s].buf = Append(@, << task[s].url, task[s].body_text >>)]
            /\ emitted' = [emitted EXCEPT ![s] =
                              Append(@, << task[s].url, task[s].body_text >>)]
            /\ task' = [task EXCEPT ![s] = AfterStep([@ EXCEPT !.pc = "links"])]
    /\ UNCHANGED << ui_vars, url_queue, visited, dequeued, nav_ok, skipped >>
Send(s) ==
    /\ Runs(s) /\ task[s].pc = "send"
    /\ IF ~chan[s].rx_open
       THEN /\ task' = [task EXCEPT ![s] = AfterStep([@ EXCEPT !.pc = "close"])]
            /\ UNCHANGED << chan, emitted >>
       ELSE /\ Len(chan[s].buf) < ChannelCapacity
            /\ chan' = [chan EXCEPT ![s].buf = Append(@, << task[s].url, task[s].body_text >>)]
            /\ emitted' = [emitted EXCEPT ![s] =
                              Append(@, << task[s].url, task[s].body_text >>)]
            /\ task' = [task EXCEPT ![s] = AfterStep([@ EXCEPT !.pc = "links"])]
    /\ UNCHANGED << ui_vars, url_queue, visited, dequeued, nav_ok, skipped >>

\* client.find_all(Css("a")).await
\* A find_all whose error leaves the while loop.
FindAllFatal(s, ok) ==
    /\ Runs(s) /\ task[s].pc = "links"
    /\ task' = [task EXCEPT ![s] =
                  IF ~ok THEN AfterStep([@ EXCEPT !.pc = "close"])
                  ELSE IF SiteLinks(task[s].url) # << >>
                  THEN AfterStep([@ EXCEPT !.pc = "attr", !.links = SiteLinks(task[s].url)])
                  ELSE AfterStep([@ EXCEPT !.pc = "sleep"])]
    /\ UNCHANGED << ui_vars, url_queue, visited, chan, dequeued, emitted, nav_ok, skipped >>
FindAll(s, ok) ==
    /\ Runs(s) /\ task[s].pc = "links"
    /\ task' = [task EXCEPT ![s] =
                  IF ok /\ SiteLinks(task[s].url) # << >>
                  THEN AfterStep([@ EXCEPT !.pc = "attr", !.links = SiteLinks(task[s].url)])
                  ELSE AfterStep([@ EXCEPT !.pc = "sleep"])]
    /\ UNCHANGED << ui_vars, url_queue, visited, chan, dequeued, emitted, nav_ok, skipped >>

\* The URL an href is resolved against.
JoinBase(t) == t.base_url

\* The test of lines 302-303.
IsNewIgnoringVisited(queue, seen, u) == \A i \in 1..Len(queue) : queue[i] # u
IsNewIgnoringQueue(queue, seen, u) == u \notin seen
IsNew(queue, seen, u) ==
    /\ u \notin seen
    /\ \A i \in 1..Len(queue) : queue[i] # u

\* The body of `for link in links`: the queue after one href.
EnqueueLinkAnyDomain(queue, seen, t, href) ==
    LET abs_url == UrlJoin(JoinBase(t), href)
    IN  IF IsSome(abs_url) /\ IsNew(queue, seen, Unwrap(abs_url))
        THEN Append(queue, Unwrap(abs_url))
        ELSE queue
EnqueueLink(queue, seen, t, href) ==
    LET abs_url == UrlJoin(JoinBase(t), href)
        base_domain == UnwrapOr(UrlDomain(t.base_url), "")
    IN  IF /\ IsSome(abs_url)
           /\ IsSome(UrlDomain(Unwrap(abs_url)))
           /\ Unwrap(UrlDomain(Unwrap(abs_url))) = base_domain
           /\ IsNew(queue, seen, Unwrap(abs_url))
        THEN Append(queue, Unwrap(abs_url))
        ELSE queue

\* link.attr("href").await for the next anchor, under both locks
Attr(s) ==
    /\ Runs(s) /\ task[s].pc = "attr"
    /\ url_queue' = [url_queue EXCEPT ![s] =
                        EnqueueLink(@, visited[s], task[s], Head(task[s].links))]
    /\ task' = [task EXCEPT ![s] =
                  AfterStep([@ EXCEPT !.links = Tail(@),
                                      !.pc = IF Tail(task[s].links) = << >>
                                             THEN "sleep" ELSE "attr"])]
    /\ UNCHANGED << ui_vars, visited, chan, dequeued, emitted, nav_ok, skipped >>

\* tokio::time::sleep(50 ms).await
Sleep(s) ==
    /\ Runs(s) /\ task[s].pc = "sleep"
    /\ task' = [task EXCEPT ![s] = AfterStep([@ EXCEPT !.pc = "dequeue"])]
    /\ UNCHANGED << ui_vars, url_queue, visited, chan, dequeued, emitted, nav_ok, skipped >>

\* client.close().await after the loop
Close(s) ==
    /\ Runs(s) /\ task[s].pc = "close"
    /\ task' = [task EXCEPT ![s] = [@ EXCEPT !.pc = "done", !.st = "finished"]]
    /\ UNCHANGED << ui_vars, url_queue, visited, chan, dequeued, emitted, nav_ok, skipped >>

\* ------------------------------------------------- main and prompt_for_url

\* KeyCode::Char / KeyCode::Backspace at the prompt, any number of them: the
\* buffer becomes another text.
PromptEdit(inp) ==
    /\ app = "prompt"
    /\ inp # input_url
    /\ input_url' = inp
    /\ UNCHANGED << app, session, app_state, crawl_vars >>

\* The head of run_app (lines 642-652): a fresh AppState, frontier and
\* channel, and the spawned crawler_task.  State and history of earlier
\* sessions whose task has ended is dropped.
Ended(s) == task[s].st \in {"none", "cancelled", "finished"}

\* A run_app that takes over the frontier of the session before it.
StartSessionSharedFrontier(base_url) ==
    LET new == session + 1
        Fresh(f, init, blank) ==
            [s \in Sessions |-> IF s = new THEN init
                                ELSE IF Ended(s) THEN blank ELSE f[s]]
        old_visited == IF session > 0 THEN visited[session] ELSE {}
    IN  /\ session' = new
        /\ app' = "session"
        /\ input_url' = InputEmpty
        /\ app_state' = AppStateNew
        /\ visited' = Fresh(visited, old_visited, {})
        /\ url_queue' = Fresh(url_queue, << base_url >>, << >>)
        /\ chan' = Fresh(chan, [buf |-> << >>, rx_open |-> TRUE], NoChan)
        /\ task' = [s \in Sessions |->
                      IF s = new
                      THEN [NoTask EXCEPT !.st = "running", !.pc = "connect",
                                          !.base_url = base_url]
                      ELSE IF Ended(s) THEN [NoTask EXCEPT !.st = task[s].st]
                      ELSE task[s]]
        /\ dequeued' = Fresh(dequeued, << >>, << >>)
        /\ emitted' = Fresh(emitted, << >>, << >>)
        /\ nav_ok' = Fresh(nav_ok, {}, {})
        /\ skipped' = Fresh(skipped, FALSE, FALSE)
StartSession(base_url) ==
    LET new == session + 1
        Fresh(f, init, blank) ==
            [s \in Sessions |-> IF s = new THEN init
                                ELSE IF Ended(s) THEN blank ELSE f[s]]
    IN  /\ session' = new
        /\ app' = "session"
        /\ input_url' = InputEmpty
        /\ app_state' = AppStateNew
        /\ visited' = Fresh(visited, {}, {})
        /\ url_queue' = Fresh(url_queue, << base_url >>, << >>)
        /\ chan' = Fresh(chan, [buf |-> << >>, rx_open |-> TRUE], NoChan)
        /\ task' = [s \in Sessions |->
                      IF s = new
                      THEN [NoTask EXCEPT !.st = "running", !.pc = "connect",
                                          !.base_url = base_url]
                      ELSE IF Ended(s) THEN [NoTask EXCEPT !.st = task[s].st]
                      ELSE task[s]]
        /\ dequeued' = Fresh(dequeued, << >>, << >>)
        /\ emitted' = Fresh(emitted, << >>, << >>)
        /\ nav_ok' = Fresh(nav_ok, {}, {})
        /\ skipped' = Fresh(skipped, FALSE, FALSE)

\* KeyCode::Enter at the prompt (lines 614-621), and main's call of run_app.
\* limit bounds the number of sessions of one run.
\* An Enter that accepts every URL Url::parse accepts, whatever its scheme.
PromptEnterAnyScheme(limit) ==
    /\ app = "prompt"
    /\ LET parsed == UrlParse(input_url)
       IN  IF IsSome(parsed)
           THEN /\ session < limit
                /\ StartSession(Unwrap(parsed))
           ELSE /\ input_url' = InputEmpty
                /\ UNCHANGED << app, session, app_state, crawl_vars >>
PromptEnter(limit) ==
    /\ app = "prompt"
    /\ LET parsed == UrlParse(input_url)
       IN  IF IsSome(parsed) /\ Unwrap(parsed).scheme \in {"http", "https"}
           THEN /\ session < limit
                /\ StartSession(Unwrap(parsed))
           ELSE /\ input_url' = InputEmpty
                /\ UNCHANGED << app, session, app_state, crawl_vars >>

\* Esc, Ctrl+Q or Ctrl+C at the prompt: prompt_for_url returns None and main
\* leaves its loop.
PromptQuit ==
    /\ app = "prompt"
    /\ app' = "exited"
    /\ UNCHANGED << input_url, session, app_state, crawl_vars >>

\* An Err from terminal.clear, terminal.draw, event::poll or event::read (the
\* `?` of lines 596, 605, 606, 655, 663, 664, 696): prompt_for_url or run_app
\* returns it, without aborting the task, and main returns it; the process
\* ends and the runtime with it.
TerminalError ==
    /\ app \in {"prompt", "session"}
    /\ app' = "failed"
    /\ chan' = IF app = "session" THEN [chan EXCEPT ![session] = NoChan] ELSE chan
    /\ app_state' = AppStateNew
    /\ UNCHANGED << input_url, session, task, url_queue, visited,
                    dequeued, emitted, nav_ok, skipped >>

\* ----------------------------------------------------------------- run_app

\* while let Ok((url, body)) = rx.try_recv() { add_crawl_result(url, body) }
\* A render loop that awaits the end of the crawl before it reads the channel.
RecvResultAfterCrawl ==
    /\ app = "session"
    /\ task[session].st = "finished"
    /\ chan[session].buf # << >>
    /\ LET msg == Head(chan[session].buf)
       IN  app_state' = add_crawl_result(app_state, msg[1], msg[2])
    /\ chan' = [chan EXCEPT ![session].buf = Tail(@)]
    /\ UNCHANGED << app, input_url, session, task, url_queue, visited,
                    dequeued, emitted, nav_ok, skipped >>
\* one message at a time: the worker may send between two try_recv calls.
\* try_recv on a channel that hands out the newest message first.
RecvResultNewest ==
    /\ app = "session"
    /\ chan[session].buf # << >>
    /\ LET buf == chan[session].buf
           msg == buf[Len(buf)]
       IN  /\ app_state' = add_crawl_result(app_state, msg[1], msg[2])
           /\ chan' = [chan EXCEPT ![session].buf = SubSeq(buf, 1, Len(buf) - 1)]
    /\ UNCHANGED << app, input_url, session, task, url_queue, visited,
                    dequeued, emitted, nav_ok, skipped >>
RecvResult ==
    /\ app = "session"
    /\ chan[session].buf # << >>
    /\ LET msg == Head(chan[session].buf)
       IN  app_state' = add_crawl_result(app_state, msg[1], msg[2])
    /\ chan' = [chan EXCEPT ![session].buf = Tail(@)]
    /\ UNCHANGED << app, input_url, session, task, url_queue, visited,
                    dequeued, emitted, nav_ok, skipped >>

\* crawler_handle.abort(): mid_poll says whether the task is being polled on
\* a runtime thread at that moment.
Abort(t, mid_poll) ==
    IF t.st = "running"
    THEN [t EXCEPT !.st = IF mid_poll THEN "aborting" ELSE "cancelled"]
    ELSE t

\* The keys that scroll down are taken only below MaxScroll, and characters
\* are typed only into a search_input shorter than MaxInput.
KeyInBounds(key, s) ==
    /\ (s.is_searching /\ key.code = "Char") => Len(s.search_input) < MaxInput
    /\ (~s.is_searching /\ (key.code = "PageDown" \/ (IsChar(key, "d") /\ key.ctrl)))
          => handle_key_input(key, s).state.content_scroll <= MaxScroll

\* Event::Key (lines 666-675): dispatch the key; on ExitCrawlerView or ExitApp
\* abort the task and return, which drops rx and the AppState.
KeyEvent(key, mid_poll) ==
    /\ app = "session"
    /\ KeyInBounds(key, app_state)
    /\ LET r == handle_key_input(key, app_state)
       IN  IF r.control = "Continue"
           THEN /\ app_state' = r.state
                /\ UNCHANGED << app, input_url, session, crawl_vars >>
           ELSE /\ task' = [task EXCEPT ![session] = Abort(@, mid_poll)]
                /\ chan' = [chan EXCEPT ![session] = NoChan]
                /\ app' = IF r.control = "ExitApp" THEN "exited" ELSE "prompt"
                /\ app_state' = AppStateNew
                /\ UNCHANGED << input_url, session, url_queue, visited,
                                dequeued, emitted, nav_ok, skipped >>

\* Event::Mouse (lines 676-679)
MouseEvent(kind, hit) ==
    /\ app = "session"
    /\ kind = "ScrollDown" /\ hit
          => handle_mouse_input(kind, hit, app_state).content_scroll <= MaxScroll
    /\ app_state' = handle_mouse_input(kind, hit, app_state)
    /\ UNCHANGED << app, input_url, session, crawl_vars >>

\* ---------------------------------------------------------- specifications

\* The crawl of one session over the whole site, with the keys that start a
\* search and that leave the session.
CrawlInputs == {InputUrl(RootX), InputUrl(PageDP), InputUrl(IpRoot), InputGarbage}
CrawlKeys == {Char("/"), Key("Esc"), Ctrl("q"), Ctrl("c")}
CrawlTexts == {<< "b" >>, BodyExtractionFailed, BodyNotFound}

WorkerStep(s, texts) ==
    \/ \E ok \in BOOLEAN : Connect(s, ok)
    \/ Dequeue(s)
    \/ \E ok \in BOOLEAN : Goto(s, ok)
    \/ \E body \in texts : Extract(s, body)
    \/ Send(s)
    \/ \E ok \in BOOLEAN : FindAll(s, ok)
    \/ Attr(s)
    \/ Sleep(s)
    \/ Close(s)

Next ==
    \/ \E inp \in CrawlInputs : PromptEdit(inp)
    \/ PromptEnter(1)
    \/ PromptQuit
    \/ RecvResult
    \/ \E key \in CrawlKeys, mid_poll \in BOOLEAN : KeyEvent(key, mid_poll)
    \/ \E s \in Sessions : WorkerStep(s, CrawlTexts)

Spec == Init /\ [][Next]_vars

\* The session state machine alone: results arrive with any of a few body
\* texts, in any order, between any keys and mouse events.
UIUrls == {RootX, PageA, PageDP}
UIBodies == {<< "b" >>, << "b", NL, "A" >>}
UIKeys == {Char("/"), Char("a"), Char("A"), Key("Enter"), Key("Esc"),
           Key("Backspace"), Key("Down"), Key("Up"), Key("PageDown"),
           Key("PageUp"), Key("Tab")}
MouseKinds == {"ScrollDown", "ScrollUp", "Moved"}

\* A message the worker sent (Send) taken from the channel in the same tick
\* (RecvResult): the worker's steps are left out of this specification.
ResultArrives(url, body) ==
    /\ app = "session"
    /\ app_state' = add_crawl_result(app_state, url, body)
    /\ UNCHANGED << app, input_url, session, crawl_vars >>

NextUI ==
    \/ PromptEdit(InputUrl(RootX))
    \/ PromptEnter(1)
    \/ \E url \in UIUrls, body \in UIBodies : ResultArrives(url, body)
    \/ \E key \in UIKeys : KeyEvent(key, FALSE)
    \/ \E kind \in MouseKinds, hit \in BOOLEAN : MouseEvent(kind, hit)

SpecUI == Init /\ [][NextUI]_vars

\* retargetScroll on long texts: one page whose first matching line is line
\* 2^16 (numbered from 0), and a short one.
LongBody == [i \in 1..(U16Modulus + 1) |-> IF i <= U16Modulus THEN NL ELSE "a"] \o << >>
ScrollBodies == {LongBody, << "b", NL, "a" >>}
ScrollKeys == {Char("/"), Char("a"), Key("Enter"), Key("Down"), Key("PageDown")}

NextScroll ==
    \/ PromptEdit(InputUrl(RootX))
    \/ PromptEnter(1)
    \/ \E body \in ScrollBodies : ResultArrives(RootX, body)
    \/ \E key \in ScrollKeys : KeyEvent(key, FALSE)

SpecScroll == Init /\ [][NextScroll]_vars

\* A session that is never left: the render loop keeps taking results out of
\* the channel (it calls try_recv in every tick, at most EVENT_POLL_TIMEOUT
\* apart), the runtime keeps polling the task, and every call of the driver
\* and the timer returns.
LiveInputs == {InputUrl(RootX), InputUrl(PageDP)}
LiveTexts == {<< "b" >>}
LiveKeys == {Char("/"), Key("Esc")}

NextLive ==
    \/ \E inp \in LiveInputs : PromptEdit(inp)
    \/ PromptEnter(1)
    \/ RecvResult
    \/ \E key \in LiveKeys : KeyEvent(key, FALSE)
    \/ \E s \in Sessions : WorkerStep(s, LiveTexts)

SpecLive ==
    /\ Init /\ [][NextLive]_vars
    /\ WF_vars(RecvResult)
    /\ \A s \in Sessions : WF_vars(WorkerStep(s, LiveTexts))

\* main's loop over several sessions, each the crawl of a page whose only
\* link is to itself, with the inputs the prompt accepts and rejects, the keys that leave
\* a session and the errors of the terminal.
TopInputs == {InputUrl(PageLeaf), InputUrl(FtpLeaf), InputGarbage, InputEmpty}

NextTop ==
    \/ \E inp \in TopInputs : PromptEdit(inp)
    \/ PromptEnter(MaxSessions)
    \/ PromptQuit
    \/ TerminalError
    \/ RecvResult
    \/ \E key \in CrawlKeys, mid_poll \in BOOLEAN : KeyEvent(key, mid_poll)
    \/ \E s \in Sessions : WorkerStep(s, LiveTexts)

SpecTop == Init /\ [][NextTop]_vars

\* Sessions in a row on two roots, each a page without a link to the other,
\* left with Ctrl+C while the task is idle or being polled.
IsoInputs == {InputUrl(PageLeaf), InputUrl(PageQ)}

NextIso ==
    \/ \E inp \in IsoInputs : PromptEdit(inp)
    \/ PromptEnter(MaxSessions)
    \/ RecvResult
    \/ \E mid_poll \in BOOLEAN : KeyEvent(Ctrl("c"), mid_poll)
    \/ \E s \in Sessions : WorkerStep(s, LiveTexts)

SpecIso == Init /\ [][NextIso]_vars

\* ================================================================== claims

InSession == app = "session"

\* Does the text contain the query, letter case aside?  (Stated on the text
\* itself, without to_lowercase copies.)
SameLetter(c, d) == LowerChar(c) = LowerChar(d)
ContainsIgnoringCase(text, query) ==
    \E i \in 0..(Len(text) - Len(query)) :
        \A k \in 1..Len(query) : SameLetter(text[i + k], query[k])

BodyOf(s, idx) == s.body_texts[s.visited_urls[idx + 1]]
Elements(seq) == {seq[k] : k \in 1..Len(seq)}
StrictlyIncreasing(seq) == \A k \in 1..(Len(seq) - 1) : seq[k] < seq[k + 1]

\* C6: in every session state filtered_url_indices is the strictly increasing
\* list of exactly the indices of visited_urls whose body text contains
\* active_search_query, letter case aside (every index for the empty query).
C6_FilterViewExact ==
    InSession =>
        LET s == app_state
        IN  /\ StrictlyIncreasing(s.filtered_url_indices)
            /\ Elements(s.filtered_url_indices) =
                   {idx \in 0..(Len(s.visited_urls) - 1) :
                       ContainsIgnoringCase(BodyOf(s, idx), s.active_search_query)}

\* C6 witness: three results, the query "a" applied, and the view keeping the
\* first and the third (whose text has "A") but not the second.
C6_Witness ==
    /\ InSession
    /\ Len(app_state.visited_urls) = 3
    /\ app_state.active_search_query = << "a" >>
    /\ app_state.filtered_url_indices = << 0, 2 >>

\* C7: in every session state the selection is None exactly when
\* filtered_url_indices is empty, and otherwise a position below its length.
C7_SelectionValid ==
    InSession =>
        LET s == app_state
        IN  IF s.filtered_url_indices = << >>
            THEN s.selected = None
            ELSE /\ IsSome(s.selected)
                 /\ Unwrap(s.selected) >= 0
                 /\ Unwrap(s.selected) < Len(s.filtered_url_indices)

\* C7 witness: the last of three listed results is selected while a query
\* is applied.
C7_Witness ==
    /\ InSession
    /\ app_state.active_search_query # Empty
    /\ Len(app_state.filtered_url_indices) = 3
    /\ app_state.selected = Some(2)

\* The steps that run update_filtered_list: a new result is recorded, a
\* search is confirmed or the applied query is cleared (leaving the editing
\* mode with Esc is included: it must then leave the selection alone).
Recomputes ==
    /\ app = "session" /\ app' = "session"
    /\ \/ app_state'.visited_urls # app_state.visited_urls
       \/ app_state'.active_search_query # app_state.active_search_query
       \/ (app_state.is_searching /\ ~app_state'.is_searching)

\* C8: over every step that recomputes filtered_url_indices, if a URL was
\* selected and its text contains the query applied after the step, the same
\* URL is selected afterwards; otherwise the first position is selected, or
\* nothing when the view is empty.
C8_SelectionStable ==
    [][Recomputes =>
        LET before == get_selected_url(app_state)
            after == app_state'
        IN  IF /\ IsSome(before)
               /\ ContainsIgnoringCase(app_state.body_texts[Unwrap(before)],
                                       after.active_search_query)
            THEN /\ get_selected_url(after) = before
                 /\ Unwrap(after.selected) < Len(after.filtered_url_indices)
            ELSE after.selected =
                    IF after.filtered_url_indices # << >> THEN Some(0) ELSE None]_vars

\* C8 witness: with a query applied, the selected entry is the second of the
\* view and the third of the record.
C8_Witness ==
    /\ InSession
    /\ app_state.active_search_query = << "a" >>
    /\ app_state.filtered_url_indices = << 1, 2 >>
    /\ app_state.selected = Some(1)

\* The line the claims C9 and C10 aim the scroll at: the number (from 0) of
\* the first line of the selected text that contains the applied query,
\* letter case aside; 0 without such a line, without a selection or without
\* a query.
FirstMatchingLine(s) ==
    LET content == get_selected_content(s)
    IN  IF s.active_search_query = Empty \/ ~IsSome(content) THEN 0
        ELSE LET text == Unwrap(content)
                 hits == {st \in LineStarts(text) :
                            ContainsIgnoringCase(LineAt(text, st), s.active_search_query)}
             IN  IF hits = {} THEN 0
                 ELSE LineNumber(text, CHOOSE st \in hits : \A o \in hits : st <= o)

\* C9 (as claimed): over every step of a session that changes the selected
\* URL or the applied query, content_scroll afterwards is the first matching
\* line of the newly selected text.
C9_ScrollFollowsSelection ==
    [][(/\ app = "session" /\ app' = "session"
        /\ \/ get_selected_url(app_state') # get_selected_url(app_state)
           \/ app_state'.active_search_query # app_state.active_search_query)
        => app_state'.content_scroll = FirstMatchingLine(app_state')]_vars

\* C10 (as claimed): in every session state, reset_or_find_scroll leaves
\* content_scroll at the first matching line of the selected text.
C10_ScrollTargetsFirstMatch ==
    InSession =>
        reset_or_find_scroll(app_state).content_scroll = FirstMatchingLine(app_state)

\* ------------------------------------------------------ claims on the crawl

Distinct(seq) == \A i, j \in 1..Len(seq) : i # j => seq[i] # seq[j]
Started(s) == s <= session
\* run_app of session s has returned.
Returned(s) == s < session \/ (s = session /\ app # "session")

\* C1: in every state of every session, no URL has been popped from
\* url_queue twice, no URL of the visited set is in url_queue, and the
\* `continue` after visited.contains (line 265) has never been taken.
C1_NoRepeatedDequeue ==
    \A s \in Sessions :
        /\ Distinct(dequeued[s])
        /\ \A i \in 1..Len(url_queue[s]) : url_queue[s][i] \notin visited[s]
        /\ ~skipped[s]

\* C1 witness: the worker, on page /a, has just passed over the link back to
\* the root, which is visited and stays out of the queue.
C1_Witness ==
    \E s \in Sessions :
        /\ task[s].st = "running" /\ task[s].pc = "attr"
        /\ task[s].url = PageA /\ Len(task[s].links) = 2
        /\ RootX \in visited[s]
        /\ Len(dequeued[s]) >= 2

\* C2: over every step, afterwards no URL is both in url_queue and in the
\* visited set and none is twice in url_queue, and the visited set of a task
\* that has not ended loses no URL.
C2_FrontierInvariant ==
    [][\A s \in Sessions :
          /\ \A i \in 1..Len(url_queue'[s]) : url_queue'[s][i] \notin visited'[s]
          /\ Distinct(url_queue'[s])
          /\ ~Ended(s) => visited[s] \subseteq visited'[s]]_vars

\* C2 witness: the worker is through the anchors of /a, one of which leads
\* to /d/p while /d/p waits in the queue.
C2_Witness ==
    \E s \in Sessions :
        /\ task[s].st = "running" /\ task[s].pc = "sleep" /\ task[s].url = PageA
        /\ \E i \in 1..Len(url_queue[s]) : url_queue[s][i] = PageDP
        /\ Cardinality(visited[s]) >= 2

Count(seq, u) == Cardinality({k \in 1..Len(seq) : seq[k][1] = u})

\* C3: in every state the messages a worker has sent carry pairwise distinct
\* URLs, each one navigated to; and while the worker runs (not aborted, the
\* receiver alive), every URL it navigated to has exactly one message, save
\* the one whose text is being extracted or sent, which has none yet; the
\* message holds the text extracted for the page (a page text or one of the
\* two fixed texts).
C3_OneResultPerUrl ==
    \A s \in Sessions :
        /\ \A u \in {emitted[s][k][1] : k \in 1..Len(emitted[s])} :
              Count(emitted[s], u) = 1 /\ u \in nav_ok[s]
        /\ task[s].st = "running" =>
              /\ \A u \in nav_ok[s] :
                    Count(emitted[s], u) =
                        IF u = task[s].url /\ task[s].pc \in {"extract", "send"}
                        THEN 0 ELSE 1
              /\ task[s].pc \in {"links", "attr", "sleep"} =>
                    emitted[s][Len(emitted[s])] = << task[s].url, task[s].body_text >>

\* C3 witness: a running worker has sent two results, one of them with the
\* text that stands for a failed extraction, and is past the second send.
C3_Witness ==
    \E s \in Sessions :
        /\ task[s].st = "running" /\ task[s].pc = "links"
        /\ Len(emitted[s]) = 2
        /\ emitted[s][1][2] = BodyExtractionFailed
        /\ emitted[s][2][2] = << "b" >>

\* C4 (as claimed): once run_app has returned, the task of that session is
\* not running, and no later step of it starts a navigation, changes its
\* queue or its visited set, or sends a message.
C4_NoStepAfterReturn ==
    [][\A s \in Sessions :
          (Started(s) /\ Returned(s) /\ session' = session) =>
              /\ task'[s].st # "running"
              /\ task'[s].pc = "goto" => task[s].pc = "goto"
              /\ url_queue'[s] = url_queue[s]
              /\ visited'[s] = visited[s]
              /\ emitted'[s] = emitted[s]]_vars

\* C5 (as claimed): in every session state in editing mode, Ctrl+Q makes
\* handle_key_input return ExitApp and Ctrl+C makes it return ExitCrawlerView.
C5_ExitKeysWhileEditing ==
    (InSession /\ app_state.is_searching) =>
        /\ handle_key_input(Ctrl("q"), app_state).control = "ExitApp"
        /\ handle_key_input(Ctrl("c"), app_state).control = "ExitCrawlerView"

\* ------------------------------------------------- claims C11 and following

\* The texts a repeated result is tried with: the texts of the arrivals and
\* one no arrival carries.
RepeatBodies == UIBodies \cup {<< "a" >>}

\* C11: in every session state visited_urls has no duplicate and its URLs are
\* exactly the keys of body_texts; and add_crawl_result of a URL that is
\* already recorded, with any text, leaves visited_urls, body_texts,
\* filtered_url_indices, the selection and content_scroll as they are.
C11_RecordIdempotent ==
    InSession =>
        LET s == app_state
        IN  /\ Distinct(s.visited_urls)
            /\ Elements(s.visited_urls) = DOMAIN s.body_texts
            /\ \A url \in Elements(s.visited_urls), body \in RepeatBodies :
                  LET t == add_crawl_result(s, url, body)
                  IN  /\ t.visited_urls = s.visited_urls
                      /\ t.body_texts = s.body_texts
                      /\ t.filtered_url_indices = s.filtered_url_indices
                      /\ t.selected = s.selected
                      /\ t.content_scroll = s.content_scroll

\* C11 witness: two results are recorded, a query that only the second text
\* matches is applied and the content is scrolled off the match: recording
\* either URL again with the text "a" would change the view or the scroll.
C11_Witness ==
    /\ InSession
    /\ Len(app_state.visited_urls) = 2
    /\ app_state.active_search_query = << "a" >>
    /\ app_state.filtered_url_indices = << 1 >>
    /\ app_state.content_scroll = 4

\* The worker of session s is at tx.send with the buffer full.
SendSuspended(s) ==
    task[s].pc = "send" /\ Len(chan[s].buf) = ChannelCapacity

\* C12: over every step, the channel afterwards holds at most ChannelCapacity
\* messages; and a step taken while the worker is at tx.send with the buffer
\* full leaves the worker at tx.send, with its url_queue, the URLs it has
\* popped and the messages it has sent unchanged (the step that takes a
\* message out ends that condition).
C12_ChannelBounded ==
    [][\A s \in Sessions :
          /\ Len(chan'[s].buf) <= ChannelCapacity
          /\ SendSuspended(s) =>
                /\ task'[s].pc = "send"
                /\ url_queue'[s] = url_queue[s]
                /\ dequeued'[s] = dequeued[s]
                /\ emitted'[s] = emitted[s]]_vars

\* C12 witness: a running worker is at tx.send for the page /d/p while the
\* buffer is full of the results of the pages before it, none taken out yet.
C12_Witness ==
    \E s \in Sessions :
        /\ task[s].st = "running" /\ SendSuspended(s)
        /\ task[s].url = PageDP
        /\ chan[s].rx_open
        /\ Len(emitted[s]) = ChannelCapacity
        /\ app_state.visited_urls = << >>

\* C13: in every session state visited_urls is a prefix of the URLs of the
\* messages the worker of the session has sent, in the order it sent them,
\* each recorded with the text it was sent with; the messages not yet
\* recorded are the ones in the channel, in the same order.
C13_RecordIsPrefix ==
    InSession =>
        LET sent == emitted[session]
            record == app_state.visited_urls
            buf == chan[session].buf
        IN  /\ Len(record) + Len(buf) = Len(sent)
            /\ \A k \in 1..Len(record) :
                  /\ record[k] = sent[k][1]
                  /\ app_state.body_texts[record[k]] = sent[k][2]
            /\ \A k \in 1..Len(buf) : buf[k] = sent[Len(record) + k]

\* C13 witness: the worker has sent three results; the first is recorded
\* and the other two wait in the channel.
C13_Witness ==
    /\ InSession
    /\ Len(emitted[session]) = 3
    /\ Len(app_state.visited_urls) = 1
    /\ Len(chan[session].buf) = 2

\* The step of the worker of session s that handles one anchor of the page
\* it is on (link.attr and the body of the for loop).
HandlesAnchor(s) ==
    task[s].pc = "attr" /\ task'[s].links = Tail(task[s].links)

\* The anchor's href resolved against the URL of the page it was found on.
ResolvedOnPage(s) == UrlJoin(task[s].url, Head(task[s].links))

\* C14 (as claimed): over every step that handles an anchor, a URL that the
\* step adds to url_queue is the href resolved against the URL of the page
\* being processed; and when that resolved URL has the root's domain and is
\* neither visited nor queued, the step adds it.
C14_ResolvedAgainstPage ==
    [][\A s \in Sessions :
          HandlesAnchor(s) =>
              LET added == Elements(url_queue'[s]) \ Elements(url_queue[s])
                  on_page == ResolvedOnPage(s)
              IN  /\ \A u \in added : on_page = Some(u)
                  /\ ( /\ IsSome(on_page)
                       /\ UrlDomain(Unwrap(on_page)) = UrlDomain(task[s].base_url)
                       /\ IsSome(UrlDomain(Unwrap(on_page)))
                       /\ Unwrap(on_page) \notin visited[s]
                       /\ Unwrap(on_page) \notin Elements(url_queue[s]) )
                     => Unwrap(on_page) \in added]_vars

\* The URLs the worker of session s holds or has reported.
CrawlUrls(s) ==
    Elements(url_queue[s]) \cup visited[s] \cup Elements(dequeued[s])
        \cup {emitted[s][k][1] : k \in 1..Len(emitted[s])}
        \cup {chan[s].buf[k][1] : k \in 1..Len(chan[s].buf)}

\* C15: in every state, every URL in url_queue, in the visited set, popped
\* for navigation, sent or recorded has the host of the root URL of its
\* session.
C15_SameDomain ==
    /\ \A s \in Sessions : \A u \in CrawlUrls(s) : u.host = task[s].base_url.host
    /\ InSession =>
          \A u \in Elements(app_state.visited_urls) : u.host = task[session].base_url.host

\* C15 witness: the worker is through the anchors of the root, one of which
\* leads to http://y/z, and has queued the two links of the root's domain.
C15_Witness ==
    \E s \in Sessions :
        /\ task[s].st = "running" /\ task[s].pc = "sleep" /\ task[s].url = RootX
        /\ \E i \in 1..Len(SiteLinks(RootX)) : SiteLinks(RootX)[i] = HrefAbs(OtherZ)
        /\ url_queue[s] = << PageA, PageDP >>

\* The URLs whose navigation failed: marked visited without a successful goto.
Failed(s) == visited[s] \ nav_ok[s]

\* The worker of session s, running, takes a step of its own from pc.
WorkerMoves(s) ==
    /\ task[s].st = "running"
    /\ task'[s].pc # task[s].pc \/ task'[s].links # task[s].links

\* C16: over every step: when a goto fails, its URL is in the visited set
\* afterwards, nothing is sent and url_queue is unchanged, and the worker is
\* still running, about to pop the next URL; no step of a running worker at
\* goto, at the extraction, at find_all or at an anchor ends the loop or the
\* task; and no navigation starts for a URL whose navigation failed.
C16_NavigationFailure ==
    [][\A s \in Sessions :
          /\ (WorkerMoves(s) /\ task[s].pc = "goto" /\ task[s].url \notin nav_ok'[s]) =>
                /\ task[s].url \in visited'[s]
                /\ emitted'[s] = emitted[s]
                /\ chan'[s] = chan[s]
                /\ url_queue'[s] = url_queue[s]
                /\ task'[s].st = "running" /\ task'[s].pc = "dequeue"
          /\ (WorkerMoves(s) /\ task[s].pc \in {"goto", "extract", "links", "attr"}) =>
                /\ task'[s].st = "running"
                /\ task'[s].pc \notin {"close", "done"}
          /\ task'[s].pc = "goto" => task'[s].url \notin Failed(s)]_vars

\* C16 witness: the navigation to /a failed; the worker, still running, has
\* sent nothing for it and has gone on to navigate to /d/p.
C16_Witness ==
    \E s \in Sessions :
        /\ task[s].st = "running" /\ task[s].pc = "extract" /\ task[s].url = PageDP
        /\ PageA \in Failed(s)
        /\ Len(emitted[s]) = 1

\* Every URL that was ever pushed on url_queue of session s: a URL leaves the
\* queue only by pop_front, which records it in dequeued.
EverEnqueued(s) == Elements(dequeued[s]) \cup Elements(url_queue[s])

\* C17 (as claimed): whenever the worker has stopped, url_queue is empty and
\* every URL that was ever enqueued is in the visited set.
C17_StoppedFrontierDone ==
    \A s \in Sessions :
        task[s].st = "finished" =>
            url_queue[s] = << >> /\ EverEnqueued(s) \subseteq visited[s]

\* C17 (amended): in a session that is never left, (1) a worker that has
\* stopped either stopped on the failed driver connection, having popped
\* nothing, with the root still queued and nothing visited, or has an empty
\* url_queue and every URL ever enqueued in the visited set; (2) a pop on
\* the empty url_queue leaves the loop, changing nothing else; (3) a running
\* worker eventually stops.
C17_Terminates ==
    /\ [](\A s \in Sessions :
            task[s].st = "finished" =>
                \/ /\ dequeued[s] = << >>
                   /\ url_queue[s] = << task[s].base_url >>
                   /\ visited[s] = {}
                \/ /\ url_queue[s] = << >>
                   /\ EverEnqueued(s) \subseteq visited[s])
    /\ [][\A s \in Sessions :
            (WorkerMoves(s) /\ task[s].pc = "dequeue" /\ url_queue[s] = << >>) =>
                /\ task'[s].pc = "close"
                /\ UNCHANGED << url_queue, visited, dequeued, emitted, chan >>]_vars
    /\ \A s \in Sessions : (task[s].st = "running") ~> (task[s].st = "finished")

\* C17 witness: the worker has stopped after the crawl of the whole site from
\* the root, one navigation having failed: four URLs popped, all visited.
C17_Witness ==
    \E s \in Sessions :
        /\ task[s].st = "finished"
        /\ url_queue[s] = << >>
        /\ Len(dequeued[s]) = 4
        /\ Cardinality(visited[s]) = 4
        /\ Failed(s) # {}

\* The pages of the site.
SiteUrls == {RootX, PageA, PageDP, PageQ, PageDQ}
SentUrls(s) == {emitted[s][k][1] : k \in 1..Len(emitted[s])}

\* C18: in a session that is never left, (1) in every state, whatever the
\* worker is doing, the render loop can take its next step: the Esc key is
\* dispatched, and try_recv yields a message whenever the channel holds one;
\* (2) every URL the worker has sent is eventually in visited_urls.
C18_RenderLoopNeverWaits ==
    /\ [](InSession =>
            /\ ENABLED KeyEvent(Key("Esc"), FALSE)
            /\ chan[session].buf # << >> => ENABLED RecvResult)
    /\ \A u \in SiteUrls :
          (InSession /\ u \in SentUrls(session))
              ~> (InSession /\ u \in Elements(app_state.visited_urls))

\* C18 witness: the worker is suspended at tx.send on the full channel while
\* the session has recorded the first of the three results sent so far.
C18_Witness ==
    /\ InSession
    /\ task[session].st = "running" /\ SendSuspended(session)
    /\ Len(emitted[session]) = 3
    /\ Len(app_state.visited_urls) = 1

\* The input at the prompt is a URL Url::parse accepts, of scheme http or
\* https.
WellFormed(inp) == inp.kind = "url" /\ inp.url.scheme \in {"http", "https"}

\* Some key makes handle_key_input return the control signal.
Signals(control) ==
    \E key \in CrawlKeys : handle_key_input(key, app_state).control = control

\* C19: every step is one of these: at the prompt, an edit, or a confirmation
\* that starts the next session on the well-formed URL typed, or a quit that
\* ends the process, or a terminal error; in a session, a step that stays in
\* it, or a return to the prompt on the exit-session signal, or the end of
\* the process on the exit-application signal, or a terminal error; nothing
\* after the process has ended.  And Enter on any other input leaves main at
\* the prompt with the input cleared and no session started.
C19_TopLevelTransitions ==
    [][/\ \/ /\ app = "prompt" /\ app' = "prompt" /\ session' = session
          \/ /\ app = "prompt" /\ app' = "session"
             /\ WellFormed(input_url)
             /\ session' = session + 1
             /\ task'[session'].st = "running"
             /\ task'[session'].base_url = input_url.url
             /\ url_queue'[session'] = << input_url.url >>
             /\ app_state' = AppStateNew
          \/ /\ app = "prompt" /\ app' \in {"exited", "failed"} /\ session' = session
          \/ /\ app = "session" /\ app' = "session" /\ session' = session
          \/ /\ app = "session" /\ app' = "prompt" /\ session' = session
             /\ Signals("ExitCrawlerView")
             /\ input_url' = InputEmpty
          \/ /\ app = "session" /\ app' = "exited" /\ session' = session
             /\ Signals("ExitApp")
          \/ /\ app = "session" /\ app' = "failed" /\ session' = session
          \/ /\ app \in {"exited", "failed"} /\ app' = app /\ UNCHANGED vars
       /\ (PromptEnter(MaxSessions) /\ ~WellFormed(input_url)) =>
             /\ app' = "prompt" /\ input_url' = InputEmpty
             /\ UNCHANGED << session, app_state, crawl_vars >>]_vars

\* C19 witness: the second session of a run is on: the first one was left
\* with the exit-session signal and the prompt confirmed a URL again.
C19_Witness ==
    /\ app = "session" /\ session = 2
    /\ task[2].st = "running" /\ task[2].base_url = PageLeaf
    /\ task[1].st \in {"aborting", "cancelled", "finished"}

\* The keys of an edit: characters (Ctrl+Q is taken as one in editing mode,
\* line 499), Backspace and a key that is ignored, up to two of them, and
\* then Esc or nothing.
TypingKeys == {Char("a"), Char("A"), Ctrl("q"), Key("Backspace"), Key("Tab")}
Typings ==
    {<< >>} \cup {<< k >> : k \in TypingKeys}
            \cup {<< k, l >> : k, l \in TypingKeys}
EditRuns == Typings \cup {Append(t, Key("Esc")) : t \in Typings}

\* The AppState after handle_key_input of each key in turn; Stayed says that
\* every one of them returned Continue.
RECURSIVE RunKeys(_, _)
RunKeys(keys, s) ==
    IF keys = << >> THEN s
    ELSE RunKeys(Tail(keys), handle_key_input(Head(keys), s).state)

RECURSIVE Stayed(_, _)
Stayed(keys, s) ==
    keys = << >> \/
        LET r == handle_key_input(Head(keys), s)
        IN  r.control = "Continue" /\ Stayed(Tail(keys), r.state)

\* Everything of the AppState but the edit buffer and the mode is the same.
SameButEdit(s, t) ==
    /\ t.active_search_query = s.active_search_query
    /\ t.filtered_url_indices = s.filtered_url_indices
    /\ t.selected = s.selected
    /\ t.content_scroll = s.content_scroll
    /\ t.visited_urls = s.visited_urls
    /\ t.body_texts = s.body_texts

\* C20: in every session state outside editing mode, after '/' and any run
\* of characters and Backspaces, ended by Esc or not, the applied query,
\* filtered_url_indices, the selection and content_scroll are what they
\* were, every key having returned Continue; the run leaves editing mode
\* exactly when it ends with Esc, and then the buffer is empty; and Enter
\* after a run without Esc makes the buffer the applied query.
C20_EditFrame ==
    (InSession /\ ~app_state.is_searching) =>
        \A keys \in EditRuns :
            LET run == << Char("/") >> \o keys
                t == RunKeys(run, app_state)
                cancelled == keys # << >> /\ keys[Len(keys)] = Key("Esc")
            IN  /\ Stayed(run, app_state)
                /\ SameButEdit(app_state, t)
                /\ t.is_searching = ~cancelled
                /\ cancelled => t.search_input = Empty
                /\ ~cancelled =>
                      LET e == handle_key_input(Key("Enter"), t).state
                      IN  /\ e.active_search_query = t.search_input
                          /\ ~e.is_searching

\* C20 witness: in editing mode, with the query "a" applied and another text
\* in the buffer, an entry selected and the content scrolled.
C20_Witness ==
    /\ InSession
    /\ app_state.is_searching
    /\ app_state.active_search_query = << "a" >>
    /\ app_state.search_input = << "a", "A" >>
    /\ app_state.selected = Some(1)
    /\ app_state.content_scroll = 3

\* select_next called k times in a row.
RECURSIVE SelectNextTimes(_, _)
SelectNextTimes(k, s) ==
    IF k = 0 THEN s ELSE SelectNextTimes(k - 1, select_next(s))

\* C21: in every session state with n entries in filtered_url_indices: for
\* n > 0 the selection is some i, select_next selects (i + 1) mod n and
\* select_previous (i - 1) mod n, either one undoes the other, n calls of
\* select_next come back to i, and the view itself is untouched; for n = 0
\* both return the AppState as it is.
C21_SelectionCyclic ==
    InSession =>
        LET s == app_state
            n == Len(s.filtered_url_indices)
        IN  IF n = 0
            THEN select_next(s) = s /\ select_previous(s) = s
            ELSE /\ IsSome(s.selected)
                 /\ LET i == Unwrap(s.selected)
                    IN  /\ select_next(s).selected = Some((i + 1) % n)
                        /\ select_previous(s).selected = Some((i + n - 1) % n)
                 /\ select_previous(select_next(s)).selected = s.selected
                 /\ select_next(select_previous(s)).selected = s.selected
                 /\ SelectNextTimes(n, s).selected = s.selected
                 /\ select_next(s).filtered_url_indices = s.filtered_url_indices
                 /\ select_previous(s).filtered_url_indices = s.filtered_url_indices

\* C21 witness: the view holds all three results and the first is selected,
\* with the content scrolled: select_previous wraps to the last entry and
\* select_next three times comes back to the first.
C21_Witness ==
    /\ InSession
    /\ ~app_state.is_searching
    /\ app_state.filtered_url_indices = << 0, 1, 2 >>
    /\ app_state.selected = Some(0)
    /\ app_state.content_scroll = 3

\* C22: in every session state outside editing mode, handle_key_input of Esc
\* returns Continue and, when a query is applied, an AppState with the
\* applied query and the buffer empty, the mode unchanged, every index of
\* visited_urls in filtered_url_indices, the selection on the URL it was on
\* (when there was one), content_scroll 0 and the record as it was; when no
\* query is applied, the AppState as it is.
C22_EscapeClearsSearch ==
    (InSession /\ ~app_state.is_searching) =>
        LET s == app_state
            r == handle_key_input(Key("Esc"), s)
            t == r.state
        IN  /\ r.control = "Continue"
            /\ IF s.active_search_query # Empty
               THEN /\ t.active_search_query = Empty
                    /\ t.search_input = Empty
                    /\ ~t.is_searching
                    /\ Len(t.filtered_url_indices) = Len(s.visited_urls)
                    /\ \A k \in 1..Len(s.visited_urls) : t.filtered_url_indices[k] = k - 1
                    /\ IsSome(get_selected_url(s)) =>
                          get_selected_url(t) = get_selected_url(s)
                    /\ t.content_scroll = 0
                    /\ t.visited_urls = s.visited_urls
                    /\ t.body_texts = s.body_texts
               ELSE t = s

\* C22 witness: outside editing mode, the query "a" is applied, the view
\* holds the second and third result, the third is selected and the content
\* is scrolled past the match.
C22_Witness ==
    /\ InSession
    /\ ~app_state.is_searching
    /\ app_state.active_search_query = << "a" >>
    /\ app_state.filtered_url_indices = << 1, 2 >>
    /\ app_state.selected = Some(1)
    /\ app_state.content_scroll = 4

\* C23: in every session state, for every URL and text that may arrive:
\* when a URL is selected, add_crawl_result leaves the selection on that URL
\* (at the same position) and content_scroll as it is; and when
\* add_crawl_result changes the selection, nothing was selected before.
C23_ArrivalKeepsSelection ==
    InSession =>
        \A url \in UIUrls, body \in RepeatBodies :
            LET s == app_state
                t == add_crawl_result(s, url, body)
            IN  /\ IsSome(get_selected_url(s)) =>
                      /\ get_selected_url(t) = get_selected_url(s)
                      /\ t.selected = s.selected
                      /\ t.content_scroll = s.content_scroll
                /\ t.selected # s.selected => s.selected = None

\* C23 witness: with the query "a" applied, the second of two results is the
\* only entry of the view and is selected, and the content is scrolled past
\* the match; a third result, matching or not, may arrive.
C23_Witness ==
    /\ InSession
    /\ Len(app_state.visited_urls) = 2
    /\ app_state.active_search_query = << "a" >>
    /\ app_state.filtered_url_indices = << 1 >>
    /\ app_state.selected = Some(0)
    /\ app_state.content_scroll = 4
    /\ ~app_state.is_searching

\* Everything the worker of session s holds, and everything the session on
\* screen has recorded, is the root of its own session (the roots of SpecIso
\* link to no other page): nothing of another session is among it.
OwnUrlsOnly ==
    /\ \A s \in Sessions : CrawlUrls(s) \subseteq {task[s].base_url}
    /\ InSession =>
          /\ Elements(app_state.visited_urls) \subseteq SentUrls(session)
          /\ Elements(app_state.visited_urls) \subseteq {task[session].base_url}

\* C24: over every step: a step that starts a session leaves an empty
\* AppState, an empty visited set, a url_queue holding the root only, an
\* empty open channel and nothing sent; after every step OwnUrlsOnly holds;
\* and a step that does not start a session changes the url_queue, the
\* visited set and the messages sent of a session only if the task of that
\* very session takes it.
C24_SessionsIsolated ==
    [][/\ session' # session =>
             /\ session' = session + 1
             /\ app_state' = AppStateNew
             /\ visited'[session'] = {}
             /\ url_queue'[session'] = << task'[session'].base_url >>
             /\ chan'[session'] = [buf |-> << >>, rx_open |-> TRUE]
             /\ emitted'[session'] = << >>
       /\ OwnUrlsOnly'
       /\ session' = session =>
             \A s \in Sessions :
                 ( \/ url_queue'[s] # url_queue[s]
                   \/ visited'[s] # visited[s]
                   \/ emitted'[s] # emitted[s] )
                 => task'[s].pc # task[s].pc \/ task'[s].links # task[s].links]_vars

\* C24 witness: the second session, on /q, has recorded its result while the
\* task of the first session, on /leaf, aborted while being polled, is about
\* to send its own result.
C24_Witness ==
    /\ app = "session" /\ session = 2
    /\ task[1].st = "aborting" /\ task[1].pc = "send"
    /\ task[1].base_url = PageLeaf
    /\ task[2].base_url = PageQ
    /\ app_state.visited_urls = << PageQ >>

====
